---- MODULE Spec2Model ----
(***************************************************************************)
(* The handheld-console interpreter of day8b.py and the single-flip        *)
(* repair search built on it; the wrap-around interpreter and loop of      *)
(* day8a.py; update_seating_plan of day11b.py.                             *)
(*                                                                         *)
(* Python lists are 0-indexed; a list is a TLA+ sequence whose element k   *)
(* (0-based) is seq[k + 1].  A list object lives in `lists` under a        *)
(* reference, so that two names bound to the same list share its writes.   *)
(***************************************************************************)
EXTENDS Integers, Sequences, FiniteSets, TLC

\* ------------------------------------------------------------------ bounds
\* longest boot program drawn
MaxLen == 3
\* Jump / NoOperation arguments are drawn from -ArgRange .. ArgRange
ArgRange == 2
\* longest boot program whose candidates are run side by side
MaxParallelLen == 2
\* most calls of execute_instruction made on a CPU that is already complete
MaxCalls == 2
\* seating plans drawn: SeatWidth seats per row, at most MaxFloor floor cells
SeatWidth == 2
MaxFloor == 1

\* ------------------------------------------------------------- data types
Accumulate == "Accumulate"
Jump == "Jump"
NoOperation == "NoOperation"

Opcode == {Accumulate, Jump, NoOperation}

Instruction(opcode, argument) == [opcode |-> opcode, argument |-> argument]

\* the arguments int(argument) can take in the programs drawn
JumpArgs == (0 - ArgRange) .. ArgRange
AccArgs == {-1, 2}

\* the instructions load_instruction can return, within the bounds
Instructions ==
    {Instruction(Jump, a) : a \in JumpArgs}
        \cup {Instruction(NoOperation, a) : a \in JumpArgs}
        \cup {Instruction(Accumulate, a) : a \in AccArgs}

\* the programs main can load: one instruction per line of the input file
Programs == UNION {[1 .. n -> Instructions] : n \in 0 .. MaxLen}

VARIABLES
    lists,                  \* the list objects: "boot" (boot_program) and "test" (the slice copy);
                            \* "plan" and "next" (the seats of a plan and of its clone)
    test_program,           \* the reference main's test_program holds ("none" before the first copy)
    consumed,               \* main: how many pairs the for loop has taken from enumerate
    index,                  \* main: the index bound by the for loop (-1 before the first iteration)
    solutions,              \* main: the messages recorded; a message is determined by its accumulator
    cpu,                    \* the CPU object of the current run
    instructions_executed,  \* run_until_halt_or_loop: the set of pointers recorded
    pc,                     \* position in main or in the caller of run_until_halt_or_loop
    saved_program,          \* history: copy of the boot program taken before the call
    trace,                  \* history: pointers at which the current run executed an instruction
    tried,                  \* history: the indices whose candidate main has built and run
    results,                \* history: what each finished candidate run ended with
    outcomes,               \* history: what each finished run of the unmodified program ended with
    free,                   \* a CPU stepped by execute_instruction alone, with no loop detection
    calls,                  \* history: execute_instruction calls made on a complete CPU
    day8a,                  \* day8a.py main: its CPU, its instructions_executed, the pointers executed
    workers,                \* candidate runs in progress side by side: each one's CPU, set and position
    next_plan,              \* day11b.py update_seating_plan: the reference next_plan holds
    cell,                   \* day11b.py update_seating_plan: how many (y, x) the loops have visited
    given_plan              \* history: copy of the seats of the plan given to update_seating_plan

\* the variables the search of day8b.py and its runs never touch
aside == <<calls, day8a, workers, next_plan, cell, given_plan>>

vars == <<lists, test_program, consumed, index, solutions, cpu, instructions_executed, pc,
          saved_program, trace, tried, results, outcomes, free, aside>>

\* ------------------------------------------------------------------- CPU
\* CPU.__init__
NewCPU ==
    [accumulator |-> 0, instruction_pointer |-> 0, program_memory |-> "empty", cycles |-> 0]

\* the list a reference denotes; CPU.__init__ binds program_memory to a fresh empty list
Deref(ref) == IF ref = "empty" THEN <<>> ELSE lists[ref]

\* CPU.set_program_memory: stores the reference, no copy
SetProgramMemory(c, ref) == [c EXCEPT !.program_memory = ref]

IsComplete_OffByOne(c) == c.instruction_pointer >= Len(Deref(c.program_memory)) - 1

\* CPU.is_complete
IsComplete(c) == c.instruction_pointer >= Len(Deref(c.program_memory))

\* program_memory[instruction_pointer] raises IndexError: Python list indexing
\* accepts -len .. len - 1
FetchRaises(c) ==
    LET n == Len(Deref(c.program_memory))
    IN  c.instruction_pointer < 0 - n \/ c.instruction_pointer >= n

\* program_memory[instruction_pointer]: a negative index counts from the end of the list
Fetch(c) ==
    LET program == Deref(c.program_memory)
        ip == c.instruction_pointer
    IN  IF ip >= 0 THEN program[ip + 1] ELSE program[Len(program) + ip + 1]

\* execute_instruction with one branch changed; each names the branch and the change
ExecuteInstruction_NopJumps(c) ==
    IF IsComplete(c)
    THEN c
    ELSE LET instruction == Fetch(c)
         IN  [c EXCEPT !.accumulator =
                           IF instruction.opcode = Accumulate THEN @ + instruction.argument ELSE @,
                       !.instruction_pointer =
                           IF instruction.opcode \in {Jump, NoOperation}
                           THEN @ + instruction.argument ELSE @ + 1,
                       !.cycles = @ + 1]

ExecuteInstruction_JumpOffByOne(c) ==
    IF IsComplete(c)
    THEN c
    ELSE LET instruction == Fetch(c)
         IN  [c EXCEPT !.accumulator =
                           IF instruction.opcode = Accumulate THEN @ + instruction.argument ELSE @,
                       !.instruction_pointer =
                           IF instruction.opcode = Jump THEN @ + instruction.argument + 1 ELSE @ + 1,
                       !.cycles = @ + 1]

ExecuteInstruction_JumpAbsolute(c) ==
    IF IsComplete(c)
    THEN c
    ELSE LET instruction == Fetch(c)
         IN  [c EXCEPT !.accumulator =
                           IF instruction.opcode = Accumulate THEN @ + instruction.argument ELSE @,
                       !.instruction_pointer =
                           IF instruction.opcode = Jump THEN instruction.argument ELSE @ + 1,
                       !.cycles = @ + 1]

ExecuteInstruction_AccAssigns(c) ==
    IF IsComplete(c)
    THEN c
    ELSE LET instruction == Fetch(c)
         IN  [c EXCEPT !.accumulator =
                           IF instruction.opcode = Accumulate THEN instruction.argument ELSE @,
                       !.instruction_pointer =
                           IF instruction.opcode = Jump THEN @ + instruction.argument ELSE @ + 1,
                       !.cycles = @ + 1]

ExecuteInstruction_NopAccumulates(c) ==
    IF IsComplete(c)
    THEN c
    ELSE LET instruction == Fetch(c)
         IN  [c EXCEPT !.accumulator =
                           IF instruction.opcode \in {Accumulate, NoOperation}
                           THEN @ + instruction.argument ELSE @,
                       !.instruction_pointer =
                           IF instruction.opcode = Jump THEN @ + instruction.argument ELSE @ + 1,
                       !.cycles = @ + 1]

ExecuteInstruction_JumpSkipsCycles(c) ==
    IF IsComplete(c)
    THEN c
    ELSE LET instruction == Fetch(c)
         IN  [c EXCEPT !.accumulator =
                           IF instruction.opcode = Accumulate THEN @ + instruction.argument ELSE @,
                       !.instruction_pointer =
                           IF instruction.opcode = Jump THEN @ + instruction.argument ELSE @ + 1,
                       !.cycles = IF instruction.opcode = Jump THEN @ ELSE @ + 1]

ExecuteInstruction_CompleteCounts(c) ==
    IF IsComplete(c)
    THEN [c EXCEPT !.cycles = @ + 1]
    ELSE LET instruction == Fetch(c)
         IN  [c EXCEPT !.accumulator =
                           IF instruction.opcode = Accumulate THEN @ + instruction.argument ELSE @,
                       !.instruction_pointer =
                           IF instruction.opcode = Jump THEN @ + instruction.argument ELSE @ + 1,
                       !.cycles = @ + 1]

\* CPU.execute_instruction when the fetch does not raise
ExecuteInstruction(c) ==
    IF IsComplete(c)
    THEN c
    ELSE LET instruction == Fetch(c)
             next_instruction_pointer ==
                 IF instruction.opcode = Jump
                 THEN c.instruction_pointer + instruction.argument
                 ELSE c.instruction_pointer + 1
             accumulator ==
                 IF instruction.opcode = Accumulate
                 THEN c.accumulator + instruction.argument
                 ELSE c.accumulator
         IN  [c EXCEPT !.accumulator = accumulator,
                       !.instruction_pointer = next_instruction_pointer,
                       !.cycles = c.cycles + 1]

\* ------------------------------------------------------- the CPU of day8a.py
\* CPU.__init__ of day8a.py: no cycle counter
Day8aNewCPU == [accumulator |-> 0, instruction_pointer |-> 0, program_memory |-> "empty"]

\* instruction_pointer % len(program_memory) raises ZeroDivisionError on an empty program
Day8aFetchRaises(c) == Len(Deref(c.program_memory)) = 0

\* program_memory[instruction_pointer % len(program_memory)]: Python's % takes the
\* sign of the divisor, so the index is within 0 .. len - 1 for every pointer
Day8aFetch(c) ==
    LET program == Deref(c.program_memory)
    IN  program[(c.instruction_pointer % Len(program)) + 1]

Day8aExecuteInstruction_NopJumps(c) ==
    LET instruction == Day8aFetch(c)
    IN  [c EXCEPT !.accumulator =
                      IF instruction.opcode = Accumulate THEN @ + instruction.argument ELSE @,
                  !.instruction_pointer =
                      IF instruction.opcode \in {Jump, NoOperation}
                      THEN @ + instruction.argument ELSE @ + 1]

\* CPU.execute_instruction of day8a.py when the fetch does not raise
Day8aExecuteInstruction(c) ==
    LET instruction == Day8aFetch(c)
        next_instruction_pointer ==
            IF instruction.opcode = Jump
            THEN c.instruction_pointer + instruction.argument
            ELSE c.instruction_pointer + 1
        accumulator ==
            IF instruction.opcode = Accumulate
            THEN c.accumulator + instruction.argument
            ELSE c.accumulator
    IN  [c EXCEPT !.accumulator = accumulator,
                  !.instruction_pointer = next_instruction_pointer]

\* --------------------------------------------- what a specification leaves out
\* the state of the scripts and harnesses a specification does not run
AsideIdle ==
    /\ calls = 0
    /\ day8a = [cpu |-> Day8aNewCPU, instructions_executed |-> {}, trace |-> <<>>]
    /\ workers = <<>>
    /\ next_plan = "none"
    /\ cell = 0
    /\ given_plan = <<>>

\* --------------------------------------------------- run_until_halt_or_loop
NewSet_Shared == instructions_executed

\* instructions_executed = set()
NewSet == {}

Recorded_AfterStep(c) == c.instruction_pointer + 1

\* the pointer the loop records before executing: instructions_executed.add(cpu.instruction_pointer)
Recorded(c) == c.instruction_pointer

LoopCondition_NoLoopCheck(c, executed) == ~IsComplete(c)

\* the while condition
LoopCondition(c, executed) ==
    ~IsComplete(c) /\ c.instruction_pointer \notin executed

\* what a finished run ended with; verdict is "Halted" or "Looped" after a
\* return and "IndexError" when execute_instruction raised
Outcome(verdict, c) ==
    [verdict |-> verdict, accumulator |-> c.accumulator,
     pointer |-> c.instruction_pointer, cycles |-> c.cycles]

\* main's reading of the CPU returned: cpu_on_exit.is_complete
Verdict(c) == IF IsComplete(c) THEN "Halted" ELSE "Looped"

RunEnter_ReusesCPU(ref) ==
    /\ cpu' = SetProgramMemory(cpu, ref)
    /\ instructions_executed' = NewSet
    /\ trace' = <<>>

\* cpu = CPU(); cpu.set_program_memory(program); instructions_executed = set()
RunEnter(ref) ==
    /\ cpu' = SetProgramMemory(NewCPU, ref)
    /\ instructions_executed' = NewSet
    /\ trace' = <<>>

LoopBody_MarksExecuted ==
    /\ pc = "loop"
    /\ LoopCondition(cpu, instructions_executed)
    /\ instructions_executed' = instructions_executed \cup {Recorded(cpu)}
    /\ IF FetchRaises(cpu)
       THEN /\ pc' = "raised"
            /\ UNCHANGED <<cpu, trace, lists>>
       ELSE /\ pc' = "loop"
            /\ cpu' = ExecuteInstruction(cpu)
            /\ trace' = Append(trace, cpu.instruction_pointer)
            /\ lists' = [lists EXCEPT ![cpu.program_memory] =
                            [k \in DOMAIN @ |->
                                IF @[k] = Fetch(cpu) THEN Instruction(NoOperation, 0) ELSE @[k]]]
    /\ UNCHANGED <<test_program, consumed, index, solutions, saved_program, tried,
                   results, outcomes, free, aside>>

\* one iteration of the while loop: record the pointer, execute the instruction
LoopBody ==
    /\ pc = "loop"
    /\ LoopCondition(cpu, instructions_executed)
    /\ instructions_executed' = instructions_executed \cup {Recorded(cpu)}
    /\ IF FetchRaises(cpu)
       THEN /\ pc' = "raised"
            /\ UNCHANGED <<cpu, trace>>
       ELSE /\ pc' = "loop"
            /\ cpu' = ExecuteInstruction(cpu)
            /\ trace' = Append(trace, cpu.instruction_pointer)
    /\ UNCHANGED <<lists, test_program, consumed, index, solutions, saved_program, tried,
                   results, outcomes, free, aside>>

\* --------------------------------- the run of an unmodified program, twice
\* longest uninterrupted execution followed by the free CPU
FreeSteps == 2 * MaxLen + 2

InitRun ==
    /\ \E p \in Programs : lists = [boot |-> p, test |-> <<>>] /\ saved_program = p
    /\ test_program = "none"
    /\ consumed = 0
    /\ index = -1
    /\ solutions = <<>>
    /\ cpu = NewCPU
    /\ instructions_executed = {}
    /\ pc = "call"
    /\ trace = <<>>
    /\ tried = <<>>
    /\ results = <<>>
    /\ outcomes = <<>>
    /\ free = [NewCPU EXCEPT !.program_memory = "boot"]
    /\ AsideIdle

\* run_until_halt_or_loop(program) is called
RunCall ==
    /\ pc = "call"
    /\ RunEnter("boot")
    /\ pc' = "loop"
    /\ UNCHANGED <<lists, test_program, consumed, index, solutions, saved_program, tried,
                   results, outcomes, free, aside>>

AfterRun == IF Len(outcomes) = 0 THEN "call" ELSE "free"

\* the while loop ends and the CPU is returned
RunReturn ==
    /\ pc = "loop"
    /\ ~LoopCondition(cpu, instructions_executed)
    /\ outcomes' = Append(outcomes, Outcome(Verdict(cpu), cpu))
    /\ pc' = AfterRun
    /\ UNCHANGED <<lists, test_program, consumed, index, solutions, cpu, instructions_executed,
                   saved_program, trace, tried, results, free, aside>>

\* the IndexError leaves run_until_halt_or_loop
RunRaised ==
    /\ pc = "raised"
    /\ outcomes' = Append(outcomes, Outcome("IndexError", cpu))
    /\ pc' = AfterRun
    /\ UNCHANGED <<lists, test_program, consumed, index, solutions, cpu, instructions_executed,
                   saved_program, trace, tried, results, free, aside>>

\* the same program executed from the initial state with no loop detection
FreeStep ==
    /\ pc = "free"
    /\ ~IsComplete(free)
    /\ ~FetchRaises(free)
    /\ free.cycles < FreeSteps
    /\ free' = ExecuteInstruction(free)
    /\ UNCHANGED <<lists, test_program, consumed, index, solutions, cpu, instructions_executed,
                   pc, saved_program, trace, tried, results, outcomes, aside>>

\* the program of scenario A: acc +1, jmp +2, jmp -1, acc +3, jmp -3
ScenarioA ==
    <<Instruction(Accumulate, 1), Instruction(Jump, 2), Instruction(Jump, -1),
      Instruction(Accumulate, 3), Instruction(Jump, -3)>>

\* the run of an unmodified program, the scenario's program among those drawn
InitScenario ==
    /\ \E p \in Programs \cup {ScenarioA} : lists = [boot |-> p, test |-> <<>>] /\ saved_program = p
    /\ test_program = "none"
    /\ consumed = 0
    /\ index = -1
    /\ solutions = <<>>
    /\ cpu = NewCPU
    /\ instructions_executed = {}
    /\ pc = "call"
    /\ trace = <<>>
    /\ tried = <<>>
    /\ results = <<>>
    /\ outcomes = <<>>
    /\ free = [NewCPU EXCEPT !.program_memory = "boot"]
    /\ AsideIdle

NextRun == RunCall \/ LoopBody \/ RunReturn \/ RunRaised \/ FreeStep

SpecRun == InitRun /\ [][NextRun]_vars

\* ------------------------------ execute_instruction called outside any run
\* a CPU constructed and given a program; execute_instruction is then called on
\* it directly, also after it has become complete
InitStep ==
    /\ \E p \in Programs : lists = [boot |-> p, test |-> <<>>] /\ saved_program = p
    /\ test_program = "none"
    /\ consumed = 0
    /\ index = -1
    /\ solutions = <<>>
    /\ cpu = NewCPU
    /\ instructions_executed = {}
    /\ pc = "free"
    /\ trace = <<>>
    /\ tried = <<>>
    /\ results = <<>>
    /\ outcomes = <<>>
    /\ free = SetProgramMemory(NewCPU, "boot")
    /\ AsideIdle

\* execute_instruction called on a CPU that is complete
CompleteStep ==
    /\ pc = "free"
    /\ IsComplete(free)
    /\ calls < MaxCalls
    /\ free' = ExecuteInstruction(free)
    /\ calls' = calls + 1
    /\ UNCHANGED <<lists, test_program, consumed, index, solutions, cpu, instructions_executed,
                   pc, saved_program, trace, tried, results, outcomes,
                   day8a, workers, next_plan, cell, given_plan>>

NextStep == FreeStep \/ CompleteStep

SpecStep == InitStep /\ [][NextStep]_vars

\* ------------------------------------------------------ main of day8a.py
\* most iterations of day8a's while loop followed: the loop has no bound of its own
Day8aSteps == 2 * MaxLen + 2

\* main of day8a.py after the program is loaded, the CPU constructed and given
\* the program, and instructions_executed = set()
InitDay8a ==
    /\ \E p \in Programs : lists = [boot |-> p, test |-> <<>>] /\ saved_program = p
    /\ test_program = "none"
    /\ consumed = 0
    /\ index = -1
    /\ solutions = <<>>
    /\ cpu = NewCPU
    /\ instructions_executed = {}
    /\ pc = "day8a"
    /\ trace = <<>>
    /\ tried = <<>>
    /\ results = <<>>
    /\ outcomes = <<>>
    /\ free = NewCPU
    /\ day8a = [cpu |-> SetProgramMemory(Day8aNewCPU, "boot"),
                instructions_executed |-> NewSet,
                trace |-> <<>>]
    /\ calls = 0
    /\ workers = <<>>
    /\ next_plan = "none"
    /\ cell = 0
    /\ given_plan = <<>>

\* one iteration of day8a's while loop: record the pointer, execute the instruction
Day8aLoopBody ==
    /\ pc = "day8a"
    /\ day8a.cpu.instruction_pointer \notin day8a.instructions_executed
    /\ Cardinality(day8a.instructions_executed) < Day8aSteps
    /\ IF Day8aFetchRaises(day8a.cpu)
       THEN /\ pc' = "day8a_raised"
            /\ day8a' = [day8a EXCEPT !.instructions_executed =
                                          @ \cup {day8a.cpu.instruction_pointer}]
       ELSE /\ pc' = "day8a"
            /\ day8a' = [cpu |-> Day8aExecuteInstruction(day8a.cpu),
                         instructions_executed |->
                             day8a.instructions_executed \cup {day8a.cpu.instruction_pointer},
                         trace |-> Append(day8a.trace, day8a.cpu.instruction_pointer)]
    /\ UNCHANGED <<lists, test_program, consumed, index, solutions, cpu, instructions_executed,
                   saved_program, trace, tried, results, outcomes, free,
                   calls, workers, next_plan, cell, given_plan>>

\* the pointer is in instructions_executed: the loop ends and the accumulator is
\* printed; the same program is then given to day8b's run_until_halt_or_loop
Day8aReport ==
    /\ pc = "day8a"
    /\ day8a.cpu.instruction_pointer \in day8a.instructions_executed
    /\ pc' = "call"
    /\ UNCHANGED <<lists, test_program, consumed, index, solutions, cpu, instructions_executed,
                   saved_program, trace, tried, results, outcomes, free, aside>>

NextDay8a == Day8aLoopBody \/ Day8aReport \/ RunCall \/ LoopBody \/ RunReturn \/ RunRaised

SpecDay8a == InitDay8a /\ [][NextDay8a]_vars

\* ------------------------------------------- update_seating_plan of day11b.py
Floor == "Floor"
Empty == "Empty"
Occupied == "Occupied"

SeatState == {Floor, Empty, Occupied}

\* the numbers of rows of the plans drawn
SeatHeights == 1 .. 3

\* the seat lists load_seating_plan can return, within the bounds: rows of
\* equal width, at least one row
Plans ==
    {s \in UNION {[1 .. SeatWidth * h -> SeatState] : h \in SeatHeights} :
        Cardinality({k \in DOMAIN s : s[k] = Floor}) <= MaxFloor}

\* SeatingPlan.height
Height(seats) == Len(seats) \div SeatWidth

\* SeatingPlan._index
Index(x, y) == y * SeatWidth + x

\* SeatingPlan.get: None off the grid
Get(seats, x, y) ==
    IF x < 0 \/ y < 0 \/ x >= SeatWidth \/ y >= Height(seats)
    THEN "None"
    ELSE seats[Index(x, y) + 1]

\* the direction vectors of neighbours_of
Directions == {d \in (-1 .. 1) \X (-1 .. 1) : d # <<0, 0>>}

\* the while loop of neighbours_of: from (cx, cy) on, is the first seat in
\* direction (dx, dy) an occupied one
RECURSIVE Sees(_, _, _, _, _)
Sees(seats, cx, cy, dx, dy) ==
    LET neighbour == Get(seats, cx, cy)
    IN  IF neighbour = "None" \/ neighbour = Empty
        THEN FALSE
        ELSE IF neighbour = Occupied
             THEN TRUE
             ELSE Sees(seats, cx + dx, cy + dy, dx, dy)

\* SeatingPlan.neighbours_of
NeighboursOf(seats, x, y) ==
    [d \in Directions |-> Sees(seats, x + d[1], y + d[2], d[1], d[2])]

\* the rules update_seating_plan applies to position (x, y) of a plan
NextState(seats, x, y) ==
    LET current_state == Get(seats, x, y)
        neighbours == NeighboursOf(seats, x, y)
        number_of_occupied_neighbours == Cardinality({d \in Directions : neighbours[d]})
    IN  IF current_state \notin {Empty, Occupied}
        THEN current_state
        ELSE IF current_state = Empty /\ number_of_occupied_neighbours = 0
             THEN Occupied
             ELSE IF current_state = Occupied /\ number_of_occupied_neighbours >= 5
                  THEN Empty
                  ELSE current_state

Clone_Alias(ref) == ref

\* SeatingPlan.clone: seats[:] allocates a new list holding the same elements
Clone(ref) == "next"

\* update_seating_plan is about to be called on a loaded plan
InitSeats ==
    /\ \E s \in Plans : lists = [plan |-> s, next |-> <<>>] /\ given_plan = s
    /\ next_plan = "none"
    /\ cell = 0
    /\ pc = "update"
    /\ test_program = "none"
    /\ consumed = 0
    /\ index = -1
    /\ solutions = <<>>
    /\ cpu = NewCPU
    /\ instructions_executed = {}
    /\ saved_program = <<>>
    /\ trace = <<>>
    /\ tried = <<>>
    /\ results = <<>>
    /\ outcomes = <<>>
    /\ free = NewCPU
    /\ calls = 0
    /\ day8a = [cpu |-> Day8aNewCPU, instructions_executed |-> {}, trace |-> <<>>]
    /\ workers = <<>>

\* next_plan = plan.clone()
UpdateCall ==
    /\ pc = "update"
    /\ next_plan' = Clone("plan")
    /\ lists' = [lists EXCEPT ![Clone("plan")] = lists["plan"]]
    /\ pc' = "cells"
    /\ UNCHANGED <<test_program, consumed, index, solutions, cpu, instructions_executed,
                   saved_program, trace, tried, results, outcomes, free,
                   calls, day8a, workers, cell, given_plan>>

\* one iteration of the loops over y and x: the rules are evaluated on plan,
\* a changed state is written to next_plan
UpdateCell ==
    /\ pc = "cells"
    /\ cell < SeatWidth * Height(lists["plan"])
    /\ LET x == cell % SeatWidth
           y == cell \div SeatWidth
           current_state == Get(lists["plan"], x, y)
           next_state == NextState(lists["plan"], x, y)
       IN  lists' = IF next_state # current_state
                    THEN [lists EXCEPT ![next_plan][Index(x, y) + 1] = next_state]
                    ELSE lists
    /\ cell' = cell + 1
    /\ UNCHANGED <<test_program, consumed, index, solutions, cpu, instructions_executed, pc,
                   saved_program, trace, tried, results, outcomes, free,
                   calls, day8a, workers, next_plan, given_plan>>

\* the loops are exhausted: return next_plan
UpdateReturn ==
    /\ pc = "cells"
    /\ cell >= SeatWidth * Height(lists["plan"])
    /\ pc' = "returned"
    /\ UNCHANGED <<lists, test_program, consumed, index, solutions, cpu, instructions_executed,
                   saved_program, trace, tried, results, outcomes, free, aside>>

NextSeats == UpdateCall \/ UpdateCell \/ UpdateReturn

SpecSeats == InitSeats /\ [][NextSeats]_vars

swap_map_AllOpcodes == [o \in Opcode |-> IF o = Jump THEN NoOperation ELSE Jump]

\* ------------------------------------------------------------------- main
\* swap_map
swap_map == [o \in {Jump, NoOperation} |-> IF o = Jump THEN NoOperation ELSE Jump]

Enumerate_Descending(program) ==
    [k \in 1 .. Len(program) |-> <<Len(program) - k, program[Len(program) - k + 1]>>]

\* enumerate(boot_program): the pairs (index, i) in the order the for loop takes them
Enumerate(program) == [k \in 1 .. Len(program) |-> <<k - 1, program[k]>>]

SliceCopy_Alias(src) == src

\* boot_program[:] allocates a new list holding the same elements and returns its reference
SliceCopy(src) == "test"

AfterCandidate_Break(verdict) == IF verdict = "Halted" THEN "done" ELSE "for"

AfterCandidate_RaiseOnLoop(verdict) == IF verdict = "Looped" THEN "crashed" ELSE "for"

\* where main goes on after a candidate's verdict: the for loop has no break, no return
AfterCandidate(verdict) == "for"

SpecScenario == InitScenario /\ [][NextRun]_vars

Init ==
    /\ \E p \in Programs : lists = [boot |-> p, test |-> <<>>] /\ saved_program = p
    /\ test_program = "none"
    /\ consumed = 0
    /\ index = -1
    /\ solutions = <<>>
    /\ cpu = NewCPU
    /\ instructions_executed = {}
    /\ pc = "for"
    /\ trace = <<>>
    /\ tried = <<>>
    /\ results = <<>>
    /\ outcomes = <<>>
    /\ free = NewCPU
    /\ AsideIdle

\* the for loop takes a pair whose opcode is not in swap_map: continue
ForSkip ==
    /\ pc = "for"
    /\ consumed < Len(lists["boot"])
    /\ LET pair == Enumerate(lists["boot"])[consumed + 1]
       IN  /\ pair[2].opcode \notin DOMAIN swap_map
           /\ index' = pair[1]
    /\ consumed' = consumed + 1
    /\ UNCHANGED <<lists, test_program, solutions, cpu, instructions_executed, pc,
                   saved_program, trace, tried, results, outcomes, free, aside>>

\* the for loop takes a Jump or NoOperation: copy the boot program, replace the
\* instruction by one with the opcode swapped, call run_until_halt_or_loop on the copy
ForCandidate ==
    /\ pc = "for"
    /\ consumed < Len(lists["boot"])
    /\ LET pair == Enumerate(lists["boot"])[consumed + 1]
           i == pair[2]
           ref == SliceCopy("boot")
           copied == [lists EXCEPT !["test"] = lists["boot"]]
       IN  /\ i.opcode \in DOMAIN swap_map
           /\ index' = pair[1]
           /\ test_program' = ref
           /\ lists' = [copied EXCEPT ![ref][pair[1] + 1] =
                            Instruction(swap_map[i.opcode], i.argument)]
           /\ tried' = Append(tried, pair[1])
           /\ RunEnter(ref)
    /\ consumed' = consumed + 1
    /\ pc' = "loop"
    /\ UNCHANGED <<solutions, saved_program, results, outcomes, free, aside>>

\* run_until_halt_or_loop returns: a complete CPU is recorded as a solution,
\* any other is reported as looping; the for loop goes on
CandidateVerdict ==
    /\ pc = "loop"
    /\ ~LoopCondition(cpu, instructions_executed)
    /\ solutions' = IF IsComplete(cpu) THEN Append(solutions, cpu.accumulator) ELSE solutions
    /\ results' = Append(results, [index |-> index, outcome |-> Outcome(Verdict(cpu), cpu)])
    /\ pc' = AfterCandidate(Verdict(cpu))
    /\ UNCHANGED <<lists, test_program, consumed, index, cpu, instructions_executed,
                   saved_program, trace, tried, outcomes, free, aside>>

\* the IndexError leaves run_until_halt_or_loop and main: nothing catches it
Crash ==
    /\ pc = "raised"
    /\ results' = Append(results, [index |-> index, outcome |-> Outcome("IndexError", cpu)])
    /\ pc' = "crashed"
    /\ UNCHANGED <<lists, test_program, consumed, index, solutions, cpu, instructions_executed,
                   saved_program, trace, tried, outcomes, free, aside>>

\* enumerate is exhausted: the solutions are shown and main returns
ForEnd ==
    /\ pc = "for"
    /\ consumed >= Len(lists["boot"])
    /\ pc' = "done"
    /\ UNCHANGED <<lists, test_program, consumed, index, solutions, cpu, instructions_executed,
                   saved_program, trace, tried, results, outcomes, free, aside>>

Next == ForSkip \/ ForCandidate \/ LoopBody \/ CandidateVerdict \/ Crash \/ ForEnd

Spec == Init /\ [][Next]_vars

\* ----------------------------------------------------------------- claims
\* the program given to run_until_halt_or_loop in SpecRun
program == lists["boot"]

Range(seq) == {seq[k] : k \in DOMAIN seq}

NoDuplicates(seq) == \A a, b \in DOMAIN seq : a # b => seq[a] # seq[b]

\* the instruction a list holds at a Python index
At(prog, ip) == IF ip >= 0 THEN prog[ip + 1] ELSE prog[Len(prog) + ip + 1]

\* the sum of the Accumulate arguments met along a sequence of pointers
RECURSIVE AccumulatedAlong(_, _)
AccumulatedAlong(prog, pointers) ==
    IF pointers = <<>>
    THEN 0
    ELSE LET instruction == At(prog, Head(pointers))
         IN  (IF instruction.opcode = Accumulate THEN instruction.argument ELSE 0)
                 + AccumulatedAlong(prog, Tail(pointers))

LastOutcome == outcomes[Len(outcomes)]

\* C1: for a non-empty program the run stops within len(program) executed
\* instructions: at no point of a run have more than len(program) instructions
\* been executed.
C1_StopsWithinLen ==
    (pc \in {"loop", "raised"} /\ Len(program) > 0) => cpu.cycles <= Len(program)

\* C2: the cycles value a run reports is at most len(program).
C2_CyclesAtMostLen ==
    \A k \in DOMAIN outcomes :
        outcomes[k].verdict \in {"Halted", "Looped"} => outcomes[k].cycles <= Len(program)

\* C3: a run ends Halted or Looped, never in an exception.
C3_OnlyHaltedOrLooped ==
    /\ pc # "raised"
    /\ \A k \in DOMAIN outcomes : outcomes[k].verdict \in {"Halted", "Looped"}

\* C5: no pointer value is executed twice in a run, and a Looped run reports
\* the accumulator and cycles of the instructions executed before the repeat:
\* the repeated pointer is among them, once, and was not executed again.
C5_NoPointerExecutedTwice ==
    /\ NoDuplicates(trace)
    /\ (pc \in {"call", "free"} /\ Len(outcomes) > 0 /\ LastOutcome.verdict = "Looped")
           => /\ LastOutcome.pointer \in Range(trace)
              /\ LastOutcome.cycles = Len(trace)
              /\ LastOutcome.accumulator = AccumulatedAlong(program, trace)

C5_Witness ==
    /\ pc = "free"
    /\ LastOutcome.verdict = "Looped"
    /\ LastOutcome.cycles >= 2
    /\ LastOutcome.accumulator # 0
    /\ LastOutcome.pointer # 0

\* C6: when the run reported Looped, the same program executed from the
\* initial state with no loop detection never reaches the end of the program.
C6_LoopedNeverHalts ==
    (Len(outcomes) > 0 /\ outcomes[1].verdict = "Looped")
        => free.instruction_pointer < Len(program)

C6_Witness ==
    /\ Len(outcomes) > 0
    /\ outcomes[1].verdict = "Looped"
    /\ free.cycles = FreeSteps
    /\ \E k \in DOMAIN program : program[k].opcode = Jump /\ program[k].argument > 1

\* C7: two runs of the same unmodified program end with the same verdict,
\* accumulator and cycles.
C7_SameOutcomeTwice ==
    Len(outcomes) = 2
        => /\ outcomes[1].verdict = outcomes[2].verdict
           /\ outcomes[1].accumulator = outcomes[2].accumulator
           /\ outcomes[1].cycles = outcomes[2].cycles

C7_Witness ==
    /\ Len(outcomes) = 2
    /\ outcomes[2].verdict = "Looped"
    /\ outcomes[2].cycles >= 2
    /\ outcomes[2].accumulator # 0

\* the finished candidate runs main took for solutions, in the order recorded
Reported == SelectSeq(results, LAMBDA r : r.outcome.verdict = "Halted")

\* the indices of the base program main can swap
Swappable == {k \in 0 .. Len(saved_program) - 1 : saved_program[k + 1].opcode \in DOMAIN swap_map}

\* the indices whose candidate run ended complete, among the candidates run so far
HaltingIndices == {results[k].index : k \in {j \in DOMAIN results : results[j].outcome.verdict = "Halted"}}

Min(S) == CHOOSE m \in S : \A n \in S : m <= n

C9_ReportsLowestOnly ==
    /\ \A a, b \in DOMAIN tried : a < b => tried[a] < tried[b]
    /\ \A k \in DOMAIN Reported : Reported[k].index = Min(HaltingIndices)

\* C9 (amended): the indices are examined in ascending order, so the first
\* repair reported is the one at the lowest index among the candidates that
\* halt; the others follow it in ascending index order.
C9_FirstReportedIsLowest ==
    /\ \A a, b \in DOMAIN tried : a < b => tried[a] < tried[b]
    /\ \A k \in DOMAIN results : results[k].index = tried[k]
    /\ (pc \in {"for", "done"})
           => /\ Len(solutions) = Len(Reported)
              /\ \A k \in DOMAIN Reported : solutions[k] = Reported[k].outcome.accumulator
    /\ Len(Reported) > 0 => Reported[1].index = Min(HaltingIndices)
    /\ \A a, b \in DOMAIN Reported : a < b => Reported[a].index < Reported[b].index

C9_Witness ==
    /\ pc = "done"
    /\ Len(solutions) >= 2
    /\ Reported[1].index > 0
    /\ \E k \in DOMAIN results :
           results[k].outcome.verdict = "Looped" /\ results[k].index < Reported[1].index

\* C10: the search leaves the base program equal to the copy saved before it.
C10_BaseProgramUnchanged == lists["boot"] = saved_program

C10_Witness ==
    /\ pc = "done"
    /\ Len(tried) >= 2
    /\ Len(solutions) >= 1
    /\ lists["test"] # saved_program
    /\ lists["boot"] = saved_program

\* the positions (0-based) at which two lists of the same length differ
Differences(a, b) == {k \in 0 .. Len(a) - 1 : a[k + 1] # b[k + 1]}

\* C11: every candidate the search runs differs from the base program in
\* exactly one instruction, the one at the index being tried; that instruction
\* is Jump or NoOperation in the base, has the other of the two opcodes in the
\* candidate and the same argument; no Accumulate is changed.
C11_CandidateIsSingleFlip ==
    test_program # "none"
        => LET candidate == lists[test_program]
               flip == tried[Len(tried)]
               base == saved_program[flip + 1]
               flipped == candidate[flip + 1]
           IN  /\ Len(candidate) = Len(saved_program)
               /\ Differences(candidate, saved_program) = {flip}
               /\ (pc \in {"loop", "raised"}) => flip = index
               /\ cpu.program_memory = test_program
               /\ base.opcode \in {Jump, NoOperation}
               /\ flipped.opcode \in {Jump, NoOperation}
               /\ flipped.opcode # base.opcode
               /\ flipped.argument = base.argument
               /\ \A k \in DOMAIN saved_program :
                      saved_program[k].opcode = Accumulate => candidate[k] = saved_program[k]

C11_Witness ==
    /\ pc = "done"
    /\ Len(solutions) > 0
    /\ Len(tried) >= 2
    /\ \E k \in DOMAIN saved_program : saved_program[k].opcode = Accumulate
    /\ saved_program[tried[Len(tried)] + 1].argument # 0
    /\ Differences(lists[test_program], saved_program) = {tried[Len(tried)]}

\* C12: when every single Jump/NoOperation flip of the base program loops,
\* the search ends normally with no solution recorded: it is not stopped by
\* an error and its solutions list is empty.
C12_NoRepairIsEmptyResult ==
    (/\ Len(results) = Cardinality(Swappable)
     /\ \A k \in DOMAIN results : results[k].outcome.verdict = "Looped")
        => /\ pc \in {"for", "done"}
           /\ solutions = <<>>
           /\ (pc = "for" /\ consumed >= Len(saved_program)) => ENABLED ForEnd

C12_Witness ==
    /\ pc = "done"
    /\ Len(results) >= 2
    /\ Len(results) = Cardinality(Swappable)
    /\ \A k \in DOMAIN results : results[k].outcome.verdict = "Looped"
    /\ solutions = <<>>

AllNoOperation(prog) == \A k \in DOMAIN prog : prog[k].opcode = NoOperation

\* C13: a run of a program made only of NoOperation instructions, of any
\* length >= 1 and with any arguments, returns Halted with accumulator 0 and
\* cycles equal to the program length.
C13_AllNoOperationHalts ==
    (Len(program) >= 1 /\ AllNoOperation(program))
        => /\ pc # "raised"
           /\ \A k \in DOMAIN outcomes :
                  /\ outcomes[k].verdict = "Halted"
                  /\ outcomes[k].accumulator = 0
                  /\ outcomes[k].cycles = Len(program)
                  /\ outcomes[k].pointer = Len(program)

C13_Witness ==
    /\ Len(program) = MaxLen
    /\ AllNoOperation(program)
    /\ \A k \in DOMAIN program : program[k].argument # 0 /\ program[k].argument # 1
    /\ Len(outcomes) = 2
    /\ outcomes[1].verdict = "Halted"
    /\ outcomes[1].cycles = MaxLen

\* C14 (as claimed): the run of scenario A's program reports Looped when the
\* pointer returns to index 1 after visiting indices 0, 1, 3, with accumulator 5.
C14_ScenarioAAsClaimed ==
    (program = ScenarioA /\ pc \in {"call", "free"} /\ Len(outcomes) > 0)
        => /\ LastOutcome.verdict = "Looped"
           /\ LastOutcome.pointer = 1
           /\ trace = <<0, 1, 3>>
           /\ LastOutcome.accumulator = 5

\* C14 (amended): the run of scenario A's program reports Looped when the
\* pointer returns to index 1 after visiting indices 0, 1, 3, 4, with
\* accumulator 4 and cycles 4.
C14_ScenarioALoopsAtOne ==
    (program = ScenarioA /\ pc \in {"call", "free"} /\ Len(outcomes) > 0)
        => /\ LastOutcome.verdict = "Looped"
           /\ LastOutcome.pointer = 1
           /\ trace = <<0, 1, 3, 4>>
           /\ instructions_executed = {0, 1, 3, 4}
           /\ LastOutcome.accumulator = 4
           /\ LastOutcome.cycles = 4

C14_Witness ==
    /\ program = ScenarioA
    /\ pc = "free"
    /\ Len(outcomes) = 2
    /\ outcomes[1].verdict = "Looped"
    /\ outcomes[1].accumulator = 4

\* C15: at every point of a run 0 <= instruction_pointer <= len(program), and
\* no instruction is fetched with a pointer outside 0 .. len(program) - 1.
C15_PointerWithinProgram ==
    (pc \in {"loop", "raised"})
        => /\ 0 <= cpu.instruction_pointer
           /\ cpu.instruction_pointer <= Len(program)
           /\ \A k \in DOMAIN trace : 0 <= trace[k] /\ trace[k] <= Len(program) - 1

\* C16: a malformed program (empty, or one whose Jump drives the pointer
\* outside 0 .. len(program) at a check point) is rejected before any
\* instruction is executed and is never run to a Halted or Looped outcome.
C16_MalformedRejectedBeforeRun ==
    (\/ Len(program) = 0
     \/ (pc = "loop" /\ (cpu.instruction_pointer < 0 \/ cpu.instruction_pointer > Len(program))))
        => /\ cpu.cycles = 0
           /\ \A k \in DOMAIN outcomes : outcomes[k].verdict \notin {"Halted", "Looped"}

\* a step of the while loop that executes an instruction, and the instruction it executes
ExecutesInstruction == pc = "loop" /\ pc' = "loop" /\ trace' # trace

Executing == At(Deref(cpu.program_memory), cpu.instruction_pointer)

\* the run has just executed a Jump with argument 0
JumpZeroExecuted ==
    /\ pc = "loop"
    /\ trace # <<>>
    /\ At(program, trace[Len(trace)]) = Instruction(Jump, 0)

\* C17: a step on Jump(n) sets the pointer to the pre-step pointer plus n and
\* leaves the accumulator unchanged; after a Jump(0) has been executed the
\* run executes nothing more and reports Looped, that Jump counted once.
C17_JumpAddsArgument ==
    [][/\ (ExecutesInstruction /\ Executing.opcode = Jump)
              => /\ cpu'.instruction_pointer = cpu.instruction_pointer + Executing.argument
                 /\ cpu'.accumulator = cpu.accumulator
       /\ JumpZeroExecuted
              => /\ cpu' = cpu
                 /\ trace' = trace
                 /\ Len(outcomes') = Len(outcomes) + 1
                 /\ outcomes'[Len(outcomes')].verdict = "Looped"
                 /\ outcomes'[Len(outcomes')].pointer = trace[Len(trace)]
                 /\ Cardinality({k \in DOMAIN trace : trace[k] = trace[Len(trace)]}) = 1]_vars

C17_Witness ==
    /\ pc = "free"
    /\ outcomes[1].verdict = "Looped"
    /\ Len(trace) >= 3
    /\ At(program, trace[Len(trace)]) = Instruction(Jump, 0)
    /\ \E k \in DOMAIN trace :
           At(program, trace[k]).opcode = Jump /\ At(program, trace[k]).argument < 0
    /\ \E k \in DOMAIN trace :
           At(program, trace[k]).opcode = Jump /\ At(program, trace[k]).argument > 1

\* C18: a step on Accumulate(n) adds n to the accumulator and advances the
\* pointer by exactly 1.
C18_AccumulateAddsAndAdvances ==
    [][(ExecutesInstruction /\ Executing.opcode = Accumulate)
           => /\ cpu'.accumulator = cpu.accumulator + Executing.argument
              /\ cpu'.instruction_pointer = cpu.instruction_pointer + 1]_vars

C18_Witness ==
    /\ pc = "loop"
    /\ Len(trace) = 3
    /\ \A k \in DOMAIN trace : At(program, trace[k]).opcode = Accumulate
    /\ cpu.accumulator = 3
    /\ cpu.instruction_pointer = 3

\* C19: the accumulator of a run starts at 0 and only an Accumulate step
\* changes it: a NoOperation step changes nothing but the pointer, which it
\* advances by 1, and the cycle and visited bookkeeping, whatever its
\* argument; a Jump step leaves the accumulator as it was.
C19_OnlyAccumulateChangesAccumulator ==
    [][/\ pc = "call" => cpu'.accumulator = 0
       /\ (ExecutesInstruction /\ Executing.opcode = NoOperation)
              => /\ cpu' = [cpu EXCEPT !.instruction_pointer = @ + 1, !.cycles = @ + 1]
                 /\ lists' = lists
       /\ (ExecutesInstruction /\ Executing.opcode = Jump) => cpu'.accumulator = cpu.accumulator
       /\ (pc = "loop" /\ cpu'.accumulator # cpu.accumulator)
              => ExecutesInstruction /\ Executing.opcode = Accumulate]_vars

C19_Witness ==
    /\ pc = "loop"
    /\ Len(trace) = 3
    /\ cpu.accumulator = 2
    /\ At(program, trace[2]) = Instruction(NoOperation, 2)
    /\ At(program, trace[3]).opcode = Jump

\* C20: every executed step adds exactly 1 to cycles and has the pre-step
\* pointer in the visited set; the set only grows during a run and is emptied
\* only where a run constructs it.
C20_StepCountsAndRecords ==
    [][/\ ExecutesInstruction
              => /\ cpu'.cycles = cpu.cycles + 1
                 /\ instructions_executed' = instructions_executed \cup {cpu.instruction_pointer}
       /\ pc = "loop" => instructions_executed \subseteq instructions_executed'
       /\ (instructions_executed' = {} /\ instructions_executed # {}) => pc = "call"
       /\ (pc' = "loop" /\ instructions_executed' = {}) => cpu'.cycles = 0]_vars

C20_Witness ==
    /\ pc = "loop"
    /\ cpu.cycles = 3
    /\ instructions_executed = Range(trace)
    /\ Cardinality(instructions_executed) = 3
    /\ \E p \in instructions_executed : p < 0

\* C21: every candidate of the repair search starts on a fresh interpreter:
\* accumulator 0, instruction pointer 0, cycles 0 and an empty set of recorded
\* pointers, bound to the candidate just built; nothing of an earlier
\* candidate's run is left in it.
C21_FreshInterpreterPerCandidate ==
    [][(pc = "for" /\ pc' = "loop") =>
           /\ cpu'.accumulator = 0
           /\ cpu'.instruction_pointer = 0
           /\ cpu'.cycles = 0
           /\ cpu'.program_memory = test_program'
           /\ instructions_executed' = {}]_vars

\* a later candidate starts fresh after an earlier candidate's run left a
\* non-zero accumulator, a moved pointer and recorded pointers behind
C21_Witness ==
    /\ pc = "loop"
    /\ Len(results) >= 1
    /\ Len(tried) = Len(results) + 1
    /\ trace = <<>>
    /\ results[Len(results)].outcome.accumulator # 0
    /\ results[Len(results)].outcome.pointer # 0
    /\ cpu = SetProgramMemory(NewCPU, test_program)
    /\ instructions_executed = {}

\* C23: the interpreter never modifies the program it executes: no step of a
\* run, and no call of execute_instruction outside a run, changes a list, and
\* the instructions of the program (opcodes and arguments) stay those supplied.
C23_ProgramNeverModified ==
    [][(pc \in {"loop", "free"}) =>
           /\ lists' = lists
           /\ cpu'.program_memory = cpu.program_memory
           /\ \A k \in DOMAIN saved_program :
                  /\ lists'[cpu'.program_memory][k].opcode = saved_program[k].opcode
                  /\ lists'[cpu'.program_memory][k].argument = saved_program[k].argument]_vars

\* a run has executed every instruction of a three-instruction program, each
\* opcode among them, and the program is still the one supplied
C23_Witness ==
    /\ pc = "loop"
    /\ Range(trace) = 0 .. 2
    /\ {saved_program[k].opcode : k \in DOMAIN saved_program} = Opcode
    /\ Deref(cpu.program_memory) = saved_program

\* C26: at every check of the while condition of run_until_halt_or_loop, cycles
\* is the number of distinct pointers recorded, and the recorded pointers are
\* the pointers at which the run executed an instruction, each exactly once.
C26_CyclesCountRecordedPointers ==
    (pc = "loop") =>
        /\ cpu.cycles = Cardinality(instructions_executed)
        /\ instructions_executed = Range(trace)
        /\ Len(trace) = cpu.cycles
        /\ NoDuplicates(trace)

\* the check that ends a run on a repeated pointer, after several instructions
C26_Witness ==
    /\ pc = "loop"
    /\ cpu.instruction_pointer \in instructions_executed
    /\ cpu.cycles >= 2
    /\ Cardinality(instructions_executed) = cpu.cycles

\* the finished candidate runs that ended complete: pointer at or beyond the
\* end of the program
EndedComplete ==
    SelectSeq(results, LAMBDA r : /\ r.outcome.verdict # "IndexError"
                                  /\ r.outcome.pointer >= Len(saved_program))

\* C28: when the search ends, solutions holds exactly one entry for each Jump /
\* NoOperation index whose flipped candidate ended complete, in ascending index
\* order, each carrying that candidate's final accumulator; a search that
\* reaches the end of the program has run the candidate of every such index.
C28_SolutionsAreTheCompleteCandidates ==
    (pc \in {"done", "crashed"}) =>
        /\ Len(solutions) = Len(EndedComplete)
        /\ \A k \in DOMAIN solutions : solutions[k] = EndedComplete[k].outcome.accumulator
        /\ \A a, b \in DOMAIN results : a < b => results[a].index < results[b].index
        /\ {results[k].index : k \in DOMAIN results} \subseteq Swappable
        /\ pc = "done" => {results[k].index : k \in DOMAIN results} = Swappable

\* a finished search whose first candidate looped and whose second ended
\* complete with a non-zero accumulator, the only entry of solutions
C28_Witness ==
    /\ pc = "done"
    /\ Len(results) = 2
    /\ results[1].outcome.verdict = "Looped"
    /\ Len(solutions) = 1
    /\ solutions[1] # 0
    /\ solutions[1] = results[2].outcome.accumulator

\* C30: execute_instruction called on a CPU that is already complete
\* (instruction_pointer >= len(program_memory)) changes nothing: accumulator,
\* instruction_pointer, cycles, the program_memory reference and the list it
\* denotes are all as before the call.
C30_CompleteStepIsNoOp ==
    [][(free.instruction_pointer >= Len(Deref(free.program_memory)) /\ calls' = calls + 1) =>
           /\ free'.accumulator = free.accumulator
           /\ free'.instruction_pointer = free.instruction_pointer
           /\ free'.cycles = free.cycles
           /\ free'.program_memory = free.program_memory
           /\ lists' = lists]_vars

\* execute_instruction has been called on a CPU that ran past the end of its
\* program with a non-zero accumulator
C30_Witness ==
    /\ calls >= 1
    /\ free.cycles >= 2
    /\ free.accumulator # 0
    /\ free.instruction_pointer > Len(Deref(free.program_memory))

\* the positions in program memory of the instructions day8a's run has executed
Day8aPositions ==
    [k \in DOMAIN day8a.trace |-> day8a.trace[k] % Len(program)]

\* C24: in the run of day8a the loop stops just before any instruction of the
\* program would be executed a second time: no position in program memory is
\* executed twice.
C24_NoInstructionExecutedTwice ==
    (Len(program) > 0) => NoDuplicates(Day8aPositions)

\* C25: the loop of day8a terminates for every non-empty program.  The loop
\* ends only at a pointer already recorded, and the pointers recorded before
\* that are distinct; two distinct recorded pointers that select the same
\* instruction (equal modulo len) start a run that repeats itself shifted by a
\* multiple of len for ever, so a run that terminates records at most len
\* pointers: once len pointers are recorded, the pointer is a recorded one.
C25_Day8aLoopTerminates ==
    (pc = "day8a" /\ Len(program) > 0
        /\ Cardinality(day8a.instructions_executed) >= Len(program))
    => day8a.cpu.instruction_pointer \in day8a.instructions_executed

\* day8a's run kept the pointer within 0 .. len - 1 until it ended
Day8aStayedWithin ==
    \A p \in day8a.instructions_executed \cup {day8a.cpu.instruction_pointer} :
        p >= 0 /\ p <= Len(program) - 1

\* C27: on a program where the pointer stays within 0 .. len - 1 until the
\* repeat is detected, day8a's run and day8b's run_until_halt_or_loop execute
\* the same sequence of pointers and end at the same pointer with the same
\* accumulator, the pointer being a repeated one.
C27_Day8aAndDay8bAgree ==
    (pc \in {"call", "free"} /\ Len(outcomes) >= 1 /\ Day8aStayedWithin) =>
        /\ trace = day8a.trace
        /\ LastOutcome.verdict = "Looped"
        /\ LastOutcome.accumulator = day8a.cpu.accumulator
        /\ LastOutcome.pointer = day8a.cpu.instruction_pointer

\* both runs have ended on a program that loops within 0 .. len - 1 after
\* three instructions, with a non-zero accumulator
C27_Witness ==
    /\ pc = "free"
    /\ Day8aStayedWithin
    /\ Len(day8a.trace) = 3
    /\ trace = day8a.trace
    /\ day8a.cpu.accumulator # 0
    /\ LastOutcome.accumulator = day8a.cpu.accumulator

\* the seats of the plan update_seating_plan is building
NextPlanSeats == lists[next_plan]

\* C29: update_seating_plan is a synchronous update: the state written for a
\* position is the one the rules give on the plan as it was passed in, never on
\* seats already updated in the same pass; positions not yet visited hold the
\* input's state; floor stays floor; and the plan passed in is never changed,
\* the writes going to its clone.
C29_SynchronousUpdate ==
    /\ lists["plan"] = given_plan
    /\ (pc \in {"cells", "returned"}) =>
           /\ next_plan # "plan"
           /\ Len(NextPlanSeats) = Len(given_plan)
           /\ \A k \in 0 .. Len(given_plan) - 1 :
                  /\ k < cell =>
                         NextPlanSeats[k + 1] =
                             NextState(given_plan, k % SeatWidth, k \div SeatWidth)
                  /\ k >= cell => NextPlanSeats[k + 1] = given_plan[k + 1]
                  /\ given_plan[k + 1] = Floor => NextPlanSeats[k + 1] = Floor
           /\ pc = "returned" => cell = Len(given_plan)

\* a returned plan with a floor cell, in which two seats next to each other in
\* a row both went from empty to occupied: the second one was not computed
\* from the first one's new state
C29_Witness ==
    /\ pc = "returned"
    /\ \E k \in DOMAIN given_plan : given_plan[k] = Floor
    /\ \E k \in 0 .. Len(given_plan) - 2 :
           /\ k % SeatWidth < SeatWidth - 1
           /\ given_plan[k + 1] = Empty /\ given_plan[k + 2] = Empty
           /\ NextPlanSeats[k + 1] = Occupied /\ NextPlanSeats[k + 2] = Occupied

\* ------------------------------------- the candidates' runs taken side by side
\* the candidate main builds for an index: test_program = boot_program[:] with
\* the instruction at the index replaced by one with the opcode swapped
Candidate(boot, k) ==
    [boot EXCEPT ![k + 1] = Instruction(swap_map[boot[k + 1].opcode], boot[k + 1].argument)]

\* the reference of the list allocated for the candidate of an index
CandidateRef(k) == ToString(k)

\* the indices main builds a candidate for
CandidateIndices(boot) == {k \in 0 .. Len(boot) - 1 : boot[k + 1].opcode \in DOMAIN swap_map}

\* run_until_halt_or_loop as a function of its argument: what the call ends with
RECURSIVE RunFrom(_, _)
RunFrom(c, executed) ==
    IF ~LoopCondition(c, executed)
    THEN Outcome(Verdict(c), c)
    ELSE IF FetchRaises(c)
         THEN Outcome("IndexError", c)
         ELSE RunFrom(ExecuteInstruction(c), executed \cup {Recorded(c)})

RunAlone(ref) == RunFrom(SetProgramMemory(NewCPU, ref), NewSet)

\* every candidate is built and run_until_halt_or_loop is entered on each: one
\* CPU and one set per call, all calls in progress at once; main's own
\* sequential search over the same boot program follows
InitParallel ==
    /\ \E p \in UNION {[1 .. n -> Instructions] : n \in 0 .. MaxParallelLen} :
           /\ saved_program = p
           /\ lists = [r \in {"boot", "test"} \cup {CandidateRef(k) : k \in CandidateIndices(p)} |->
                          IF r = "boot" THEN p
                          ELSE IF r = "test" THEN <<>>
                          ELSE Candidate(p, CHOOSE k \in CandidateIndices(p) : CandidateRef(k) = r)]
           /\ workers = [k \in CandidateIndices(p) |->
                            [cpu |-> SetProgramMemory(NewCPU, CandidateRef(k)),
                             instructions_executed |-> NewSet,
                             pc |-> "loop"]]
    /\ test_program = "none"
    /\ consumed = 0
    /\ index = -1
    /\ solutions = <<>>
    /\ cpu = NewCPU
    /\ instructions_executed = {}
    /\ pc = "parallel"
    /\ trace = <<>>
    /\ tried = <<>>
    /\ results = <<>>
    /\ outcomes = <<>>
    /\ free = NewCPU
    /\ calls = 0
    /\ day8a = [cpu |-> Day8aNewCPU, instructions_executed |-> {}, trace |-> <<>>]
    /\ next_plan = "none"
    /\ cell = 0
    /\ given_plan = <<>>

\* one iteration of the while loop of one of the calls in progress
WorkerLoopBody ==
    /\ pc = "parallel"
    /\ \E k \in DOMAIN workers :
           LET w == workers[k]
           IN  /\ w.pc = "loop"
               /\ LoopCondition(w.cpu, w.instructions_executed)
               /\ workers' =
                      [workers EXCEPT ![k] =
                          IF FetchRaises(w.cpu)
                          THEN [w EXCEPT !.instructions_executed = @ \cup {Recorded(w.cpu)},
                                         !.pc = "raised"]
                          ELSE [cpu |-> ExecuteInstruction(w.cpu),
                                instructions_executed |->
                                    w.instructions_executed \cup {Recorded(w.cpu)},
                                pc |-> "loop"]]
    /\ UNCHANGED <<lists, test_program, consumed, index, solutions, cpu, instructions_executed,
                   pc, saved_program, trace, tried, results, outcomes, free,
                   calls, day8a, next_plan, cell, given_plan>>

\* the while loop of one of the calls ends and its CPU is returned
WorkerReturn ==
    /\ pc = "parallel"
    /\ \E k \in DOMAIN workers :
           /\ workers[k].pc = "loop"
           /\ ~LoopCondition(workers[k].cpu, workers[k].instructions_executed)
           /\ workers' = [workers EXCEPT ![k].pc = "returned"]
    /\ UNCHANGED <<lists, test_program, consumed, index, solutions, cpu, instructions_executed,
                   pc, saved_program, trace, tried, results, outcomes, free,
                   calls, day8a, next_plan, cell, given_plan>>

\* every call has ended; main's sequential search starts
WorkersJoined ==
    /\ pc = "parallel"
    /\ \A k \in DOMAIN workers : workers[k].pc # "loop"
    /\ pc' = "for"
    /\ UNCHANGED <<lists, test_program, consumed, index, solutions, cpu, instructions_executed,
                   saved_program, trace, tried, results, outcomes, free, aside>>

NextParallel ==
    \/ WorkerLoopBody \/ WorkerReturn \/ WorkersJoined
    \/ ForSkip \/ ForCandidate \/ LoopBody \/ CandidateVerdict \/ Crash \/ ForEnd

SpecParallel == InitParallel /\ [][NextParallel]_vars

\* what the call of a worker that has ended ended with
WorkerOutcome(k) ==
    Outcome(IF workers[k].pc = "raised" THEN "IndexError" ELSE Verdict(workers[k].cpu),
            workers[k].cpu)

\* the candidates found complete by the calls run side by side
WorkersComplete ==
    {k \in DOMAIN workers : workers[k].pc = "returned" /\ IsComplete(workers[k].cpu)}

NoRepair == [found |-> FALSE, index |-> -1, accumulator |-> 0]

\* the repair obtained by taking the lowest index among the complete candidates
LowestIndexRepair ==
    IF WorkersComplete = {}
    THEN NoRepair
    ELSE [found |-> TRUE, index |-> Min(WorkersComplete),
          accumulator |-> workers[Min(WorkersComplete)].cpu.accumulator]

\* the repair main's sequential search gives: the first solution it shows
SequentialRepair ==
    IF pc = "done" /\ Len(Reported) > 0
    THEN [found |-> TRUE, index |-> Reported[1].index,
          accumulator |-> Reported[1].outcome.accumulator]
    ELSE NoRepair

\* each call that has ended ended as the same call does when made on its own
OutcomeAsRunAlone ==
    \A k \in DOMAIN workers :
        workers[k].pc # "loop" => WorkerOutcome(k) = RunAlone(CandidateRef(k))

====
